---- MODULE Spec2Model ----
(***************************************************************************)
(* Model of PolicyiterationMDP.py: the generic MDP class, the GridMDP      *)
(* specialisation and the policy-iteration solver.                         *)
(*                                                                         *)
(* Number representation.  The program computes with Python floats.  Here  *)
(* every quantity is a fixed-point integer:                                *)
(*   - rewards and utilities are counted in units of 1/Scale,              *)
(*   - probabilities in units of 1/ProbUnit  (0.8 -> 8, 0.1 -> 1),         *)
(*   - the discount factor in units of 1/GammaUnit (0.9 -> 9).             *)
(* A product gamma * sum(p * U) is therefore divided by                    *)
(* ProbUnit * GammaUnit, rounding down.                                    *)
(*                                                                         *)
(* Python values.  None and the empty tuple are both written <<>>; a       *)
(* present value v of an optional argument or of a grid cell is written    *)
(* <<v>>.  A coordinate (x, y) is <<x, y>>, a list is a sequence, a dict   *)
(* is a function and an empty dict is the function with empty domain.      *)
(***************************************************************************)
EXTENDS Integers, Sequences, FiniteSets, TLC

VARIABLES
    call,         \* the constructor call made: class name and arguments
    outcome,      \* "none" before the call, then "ok" or the exception raised
    grid,         \* the caller's grid list, aliased as self.grid
    rows,         \* self.rows
    cols,         \* self.cols
    states,       \* self.states
    init,         \* self.init
    actlist,      \* self.actlist
    terminals,    \* self.terminals
    transitions,  \* self.transitions
    gamma,        \* self.gamma
    reward,       \* self.reward
    pc,           \* position of policy_iteration: idle, evaluate, improve, done
    order,        \* the order in which iterating mdp.states yields the states
    U,            \* utility table of policy_iteration
    pi,           \* policy of policy_iteration
    unchanged,    \* the flag of the last improvement pass
    passes,       \* completed passes of the while loop: len(reward_list)/len(states)
    trail         \* history: pi and U at the end of every pass that did not return

objvars == <<rows, cols, states, init, actlist, terminals, transitions, gamma, reward>>
solvevars == <<pc, order, U, pi, unchanged, passes, trail>>
vars == <<call, outcome, grid, rows, cols, states, init, actlist, terminals,
          transitions, gamma, reward, pc, order, U, pi, unchanged, passes, trail>>

----------------------------------------------------------------------------
(* Units and bounds *)

Scale == 100 * 100
ProbUnit == 2 * 5
GammaUnit == 2 * 5

\* a grid of the construction universe has at most MaxCells cells
MaxCells == 4
\* and at most MaxTerminals terminal coordinates
MaxTerminals == 1
\* the while loop of policy_iteration is followed for at most MaxPasses passes
MaxPasses == 12

----------------------------------------------------------------------------
(* Python values *)

None == <<>>
Some(v) == <<v>>

\* bool(x) of an optional set or dict: None and empty containers are false
TruthySet(opt) == opt # None /\ opt[1] # {}
TruthyDict(opt) == opt # None /\ DOMAIN opt[1] # {}

\* bool(x) of a grid cell: None and the number 0 are false
TruthyCell(cell) == cell # None /\ cell[1] # 0

Range(seq) == {seq[i] : i \in 1..Len(seq)}

RECURSIVE Reverse(_)
Reverse(seq) == IF seq = <<>> THEN <<>> ELSE Append(Reverse(Tail(seq)), Head(seq))

IndexOf(seq, v) == CHOOSE i \in 1..Len(seq) : seq[i] = v

\* sum of the probabilities of an outcome list
RECURSIVE SumProb(_)
SumProb(outs) == IF outs = <<>> THEN 0 ELSE Head(outs)[1] + SumProb(Tail(outs))

Abs(n) == IF n < 0 THEN -n ELSE n

----------------------------------------------------------------------------
(* Orientations and turns *)

EAST == <<1, 0>>
NORTH == <<0, 1>>
WEST == <<-1, 0>>
SOUTH == <<0, -1>>
orientations == <<EAST, NORTH, WEST, SOUTH>>

LEFT == 1
RIGHT == -1

vector_add(a, b) == <<a[1] + b[1], a[2] + b[2]>>

\* headings[(headings.index(heading) + inc) % len(headings)], 0-based in Python
turn_heading(heading, inc) ==
    orientations[((IndexOf(orientations, heading) - 1 + inc) % Len(orientations)) + 1]

\* a turn_right that turns the way turn_left does
turn_right_to_the_left(heading) == turn_heading(heading, LEFT)

turn_right(heading) == turn_heading(heading, RIGHT)

turn_left(heading) == turn_heading(heading, LEFT)

----------------------------------------------------------------------------
(* class MDP *)

\* the result of a constructor call that raised: no object
NoObject(exc) ==
    [outcome |-> exc, states |-> {}, init |-> None, actlist |-> <<>>,
     terminals |-> {}, transitions |-> <<>>, gamma |-> 0, reward |-> <<>>]

\* MDP.get_states_from_transitions: Some(set) for a dict, None otherwise
get_states_from_transitions(transitionsOpt) ==
    IF transitionsOpt # None
    THEN LET table == transitionsOpt[1]
             s1 == DOMAIN table
             s2 == UNION {UNION {{table[s][a][i][2] : i \in 1..Len(table[s][a])}
                                 : a \in DOMAIN table[s]} : s \in DOMAIN table}
         IN  Some(s1 \cup s2)
    ELSE None

\* the gamma test of MDP.__init__
GammaAccepted(gam) == 0 < gam /\ gam <= GammaUnit

\* MDP.__init__: the fields of the object built, or the exception raised
MDP_init(initA, actlistA, terminalsA, transitionsOpt, rewardOpt, statesOpt, gam) ==
    IF ~ GammaAccepted(gam)
    THEN NoObject("ValueError")
    ELSE LET \* states or self.get_states_from_transitions(transitions)
             statesF == IF TruthySet(statesOpt) THEN statesOpt
                        ELSE get_states_from_transitions(transitionsOpt)
             \* transitions or {}
             transitionsF == IF TruthyDict(transitionsOpt) THEN transitionsOpt[1] ELSE <<>>
         IN  IF TruthyDict(rewardOpt)
             THEN [outcome |-> "ok",
                   states |-> IF statesF = None THEN None ELSE statesF[1],
                   init |-> initA, actlist |-> actlistA, terminals |-> terminalsA,
                   transitions |-> transitionsF, gamma |-> gam, reward |-> rewardOpt[1]]
             ELSE IF statesF = None
             THEN \* {s: 0 for s in None}
                  NoObject("TypeError")
             ELSE [outcome |-> "ok", states |-> statesF[1],
                   init |-> initA, actlist |-> actlistA, terminals |-> terminalsA,
                   transitions |-> transitionsF, gamma |-> gam,
                   reward |-> [s \in statesF[1] |-> 0]]

\* what a method call gives: a value, or an exception
Returns(v) == [raised |-> "none", value |-> v]
Raises(exc, msg) == [raised |-> exc, value |-> msg]

\* MDP.T
MDP_T(state, action) ==
    IF DOMAIN transitions = {}
    THEN Raises("ValueError", "Transition model is missing")
    ELSE IF state \notin DOMAIN transitions THEN Raises("KeyError", "state")
    ELSE IF action \notin DOMAIN transitions[state] THEN Raises("KeyError", "action")
    ELSE Returns(transitions[state][action])

\* an actions that gives a terminal state the headings too
actions_ignoring_terminals(state) == actlist

\* MDP.actions
actions(state) == IF state \in terminals THEN <<None>> ELSE actlist

----------------------------------------------------------------------------
(* class GridMDP *)

PForward == 8
PSide == 1

\* the loop of GridMDP.__init__ that collects the states, on the reversed grid
GridStates(rg) ==
    {s \in (0..(Len(rg[1]) - 1)) \X (0..(Len(rg) - 1)) : TruthyCell(rg[s[2] + 1][s[1] + 1])}

\* and the rewards
GridReward(rg) == [s \in GridStates(rg) |-> rg[s[2] + 1][s[1] + 1][1]]

\* GridMDP.go, with self.states = sts
go(sts, state, direction) ==
    LET state1 == vector_add(state, direction)
    IN  IF state1 \in sts THEN state1 ELSE state

\* a calculate_T that leaves out the outcome of turning left
calculate_T_without_left(sts, state, action) ==
    IF action # None
    THEN << <<PForward, go(sts, state, action)>>,
            <<PSide, go(sts, state, turn_right(action))>> >>
    ELSE << <<0, state>> >>

\* GridMDP.calculate_T, with self.states = sts
calculate_T(sts, state, action) ==
    IF action # None
    THEN << <<PForward, go(sts, state, action)>>,
            <<PSide, go(sts, state, turn_right(action))>>,
            <<PSide, go(sts, state, turn_left(action))>> >>
    ELSE << <<0, state>> >>

\* the transition table GridMDP.__init__ builds
GridTransitions(sts) ==
    [s \in sts |-> [a \in Range(orientations) |-> calculate_T(sts, s, a)]]

\* GridMDP.T
T(state, action) ==
    IF action # None THEN transitions[state][action] ELSE << <<0, state>> >>

----------------------------------------------------------------------------
(* policy_evaluation, expected_utility, policy_iteration *)

\* k of policy_evaluation
K == 20

\* sum(p * U[s1] for (p, s1) in outs), counted in 1/(ProbUnit * Scale)
RECURSIVE SumPU(_, _)
SumPU(outs, u) ==
    IF outs = <<>> THEN 0 ELSE Head(outs)[1] * u[Head(outs)[2]] + SumPU(Tail(outs), u)

expected_utility(a, s, u) == SumPU(T(s, a), u)

\* R(s) + gamma * sum(p * U[s1] for (p, s1) in T(s, pi[s]))
Backup(pol, u, s) ==
    reward[s] + (gamma * expected_utility(pol[s], s, u)) \div (ProbUnit * GammaUnit)

\* for s in mdp.states: U[s] = ..., from the i-th state on; U is updated in place
RECURSIVE Sweep(_, _, _)
Sweep(pol, u, i) ==
    IF i > Len(order) THEN u
    ELSE Sweep(pol, [u EXCEPT ![order[i]] = Backup(pol, u, order[i])], i + 1)

\* policy_evaluation(pi, U, mdp, k): k sweeps.  A sweep that changes no
\* utility leaves nothing for the remaining sweeps to change.
RECURSIVE policy_evaluation(_, _, _)
policy_evaluation(pol, u, k) ==
    IF k = 0 THEN u
    ELSE LET u1 == Sweep(pol, u, 1)
         IN  IF u1 = u THEN u ELSE policy_evaluation(pol, u1, k - 1)

\* a scan that keeps the last of the largest
RECURSIVE argmaxFrom_keeping_last(_, _, _, _, _)
argmaxFrom_keeping_last(acts, s, u, i, best) ==
    IF i > Len(acts) THEN best
    ELSE argmaxFrom_keeping_last(acts, s, u, i + 1,
                    IF expected_utility(acts[i], s, u) >= expected_utility(best, s, u)
                    THEN acts[i] ELSE best)

\* max(acts, key = expected utility) of Python: the first of the largest
RECURSIVE argmaxFrom(_, _, _, _, _)
argmaxFrom(acts, s, u, i, best) ==
    IF i > Len(acts) THEN best
    ELSE argmaxFrom(acts, s, u, i + 1,
                    IF expected_utility(acts[i], s, u) > expected_utility(best, s, u)
                    THEN acts[i] ELSE best)

\* min(acts, key = expected utility): the first of the smallest
RECURSIVE argminFrom(_, _, _, _, _)
argminFrom(acts, s, u, i, best) ==
    IF i > Len(acts) THEN best
    ELSE argminFrom(acts, s, u, i + 1,
                    IF expected_utility(acts[i], s, u) < expected_utility(best, s, u)
                    THEN acts[i] ELSE best)

argmin(acts, s, u) == argminFrom(acts, s, u, 2, acts[1])

argmax(acts, s, u) == argmaxFrom(acts, s, u, 2, acts[1])

\* the for loop of policy_iteration, from the i-th state on
RECURSIVE improve(_, _, _, _)
improve(pol, u, flag, i) ==
    IF i > Len(order) THEN [pi |-> pol, unchanged |-> flag]
    ELSE LET s == order[i]
             a == argmax(actions(s), s, u)
         IN  IF a # pol[s]
             THEN improve([pol EXCEPT ![s] = a], u, FALSE, i + 1)
             ELSE improve(pol, u, flag, i + 1)

\* the while loop of policy_iteration from policy pol and utilities u, followed
\* for n passes: Some(the policy returned), or None when no pass returned
RECURSIVE while_loop(_, _, _)
while_loop(pol, u, n) ==
    LET u1 == policy_evaluation(pol, u, K)
        r == improve(pol, u1, TRUE, 1)
    IN  IF r.unchanged THEN Some(r.pi)
        ELSE IF n <= 1 THEN None
        ELSE while_loop(r.pi, u1, n - 1)

\* policy_iteration(mdp) when random.choice picks the policy pol
policy_iteration(pol) == while_loop(pol, [s \in states |-> 0], MaxPasses)

\* the orders in which a set can be iterated
Orders(S) ==
    {o \in [1..Cardinality(S) -> S] : \A i, j \in 1..Cardinality(S) : o[i] = o[j] => i = j}

\* the policies random.choice(mdp.actions(s)) can produce
InitialPolicies ==
    {pol \in [states -> Range(orientations) \cup {None}] :
        \A s \in states : pol[s] \in Range(actions(s))}

\* lines 202-204: U, pi; the iteration order of mdp.states is fixed for the run
Start(ord, pol) ==
    /\ pc = "idle"
    /\ outcome = "ok"
    /\ call.class = "GridMDP"
    /\ order' = ord
    /\ U' = [s \in states |-> 0]
    /\ pi' = pol
    /\ unchanged' = TRUE
    /\ passes' = 0
    /\ trail' = << [pi |-> pol, U |-> [s \in states |-> 0]] >>
    /\ pc' = "evaluate"
    /\ UNCHANGED <<call, outcome, grid>>
    /\ UNCHANGED objvars

\* lines 206-207
Evaluate ==
    /\ pc = "evaluate"
    /\ passes < MaxPasses
    /\ U' = policy_evaluation(pi, U, K)
    /\ unchanged' = TRUE
    /\ pc' = "improve"
    /\ UNCHANGED <<order, pi, passes, trail>>
    /\ UNCHANGED <<call, outcome, grid>>
    /\ UNCHANGED objvars

\* lines 208-215
Improve ==
    /\ pc = "improve"
    /\ LET r == improve(pi, U, unchanged, 1)
       IN  /\ pi' = r.pi
           /\ unchanged' = r.unchanged
           /\ pc' = IF r.unchanged THEN "done" ELSE "evaluate"
           /\ trail' = IF r.unchanged THEN trail ELSE Append(trail, [pi |-> r.pi, U |-> U])
    /\ passes' = passes + 1
    /\ UNCHANGED <<order, U>>
    /\ UNCHANGED <<call, outcome, grid>>
    /\ UNCHANGED objvars

----------------------------------------------------------------------------
(* Constructor calls *)

Init ==
    /\ call = [class |-> "none"]
    /\ outcome = "none"
    /\ grid = <<>>
    /\ rows = 0
    /\ cols = 0
    /\ states = {}
    /\ init = None
    /\ actlist = <<>>
    /\ terminals = {}
    /\ transitions = <<>>
    /\ gamma = 0
    /\ reward = <<>>
    /\ pc = "idle"
    /\ order = <<>>
    /\ U = <<>>
    /\ pi = <<>>
    /\ unchanged = TRUE
    /\ passes = 0
    /\ trail = <<>>

\* the fields MDP.__init__ assigns
SetObject(obj) ==
    /\ outcome' = obj.outcome
    /\ states' = obj.states
    /\ init' = obj.init
    /\ actlist' = obj.actlist
    /\ terminals' = obj.terminals
    /\ transitions' = obj.transitions
    /\ gamma' = obj.gamma
    /\ reward' = obj.reward

\* MDP(init, actlist, terminals, transitions, reward, states, gamma)
MDPInit(initA, actlistA, terminalsA, transitionsOpt, rewardOpt, statesOpt, gam) ==
    /\ outcome = "none"
    /\ call' = [class |-> "MDP", terminals |-> terminalsA, transitions |-> transitionsOpt,
                reward |-> rewardOpt, states |-> statesOpt, gamma |-> gam]
    /\ SetObject(MDP_init(initA, actlistA, terminalsA, transitionsOpt, rewardOpt,
                          statesOpt, gam))
    /\ UNCHANGED <<grid, rows, cols>>
    /\ UNCHANGED solvevars

\* GridMDP(grid, terminals, init, gamma).  grid.reverse() acts on the caller's
\* list; rows, cols and grid belong to the object, which exists only when
\* MDP.__init__ returns.
GridMDPInit(g, terminalsA, initA, gam) ==
    /\ outcome = "none"
    /\ call' = [class |-> "GridMDP", grid |-> g, terminals |-> terminalsA, gamma |-> gam]
    /\ LET rg == Reverse(g)
           sts == GridStates(rg)
           obj == MDP_init(initA, orientations, terminalsA, Some(GridTransitions(sts)),
                           Some(GridReward(rg)), Some(sts), gam)
       IN  /\ grid' = rg
           /\ SetObject(obj)
           /\ IF obj.outcome = "ok"
              THEN rows' = Len(rg) /\ cols' = Len(rg[1])
              ELSE UNCHANGED <<rows, cols>>
    /\ UNCHANGED solvevars

----------------------------------------------------------------------------
(* The calls considered *)

\* -0.04, +1 and -1, the rewards of the environments of the program
StepReward == -(Scale \div 25)
PlusReward == Scale
MinusReward == -Scale

CellValues == {None, Some(0), Some(StepReward), Some(PlusReward), Some(MinusReward)}

\* gamma = -0.1, 0, 0.1, 0.9, 1 and 1.1
GammaValues == {-1, 0, 1, 9, GammaUnit, GammaUnit + 1}

Shapes == {sh \in (1..MaxCells) \X (1..MaxCells) : sh[1] * sh[2] <= MaxCells}

\* grids as the caller writes them, top row first; sh = <<columns, rows>>
GridsOf(sh, cells) == [1..sh[2] -> [1..sh[1] -> cells]]

Coordinates(g) == (0..(Len(g[1]) - 1)) \X (0..(Len(g) - 1))

TerminalSets(g, n) == {t \in SUBSET Coordinates(g) : Cardinality(t) <= n}

\* arguments of the generic MDP: two states, and a table from A to B
StateA == <<0, 0>>
StateB == <<1, 0>>
TableAB == [s \in {StateA} |-> [a \in Range(orientations) |-> << <<ProbUnit, StateB>> >>]]

TransitionsArg(k) ==
    CASE k = 0 -> None
      [] k = 1 -> Some(<<>>)
      [] k = 2 -> Some(TableAB)

StatesArg(k) ==
    CASE k = 0 -> None
      [] k = 1 -> Some({})
      [] k = 2 -> Some({StateA, StateB})

RewardArg(k) ==
    CASE k = 0 -> None
      [] k = 1 -> Some(<<>>)
      [] k = 2 -> Some([s \in {StateA, StateB} |-> StepReward])

ConstructGrid ==
    /\ outcome = "none"
    /\ \E sh \in Shapes : \E g \in GridsOf(sh, CellValues) :
        \E t \in TerminalSets(g, MaxTerminals) : \E gam \in GammaValues :
            GridMDPInit(g, t, <<0, 0>>, gam)

ConstructMDP ==
    /\ outcome = "none"
    /\ \E kt \in 0..2, kr \in 0..2, ks \in 0..2 :
        \E t \in {{}, {StateB}} : \E gam \in GammaValues :
            MDPInit(StateA, orientations, t, TransitionsArg(kt), RewardArg(kr),
                    StatesArg(ks), gam)

Next == ConstructGrid \/ ConstructMDP

Spec == Init /\ [][Next]_vars

----------------------------------------------------------------------------
(* The runs of policy_iteration considered *)

\* sequential_decision_environment_2_2, with the default gamma
Env22 ==
    [grid |-> << <<Some(StepReward), Some(PlusReward)>>,
                 <<Some(StepReward), Some(MinusReward)>> >>,
     terminals |-> {<<1, 0>>, <<1, 1>>},
     gamma |-> 9]

\* one-row grids of these widths, with at most MaxTerminals terminals, gamma
\* 0.9 or 1
SolveWidths == 1..3
SolveCells == {None, Some(StepReward), Some(PlusReward), Some(MinusReward)}
SolveGammas == {9, GammaUnit}

ConstructEnv ==
    /\ outcome = "none"
    /\ \/ GridMDPInit(Env22.grid, Env22.terminals, <<0, 0>>, Env22.gamma)
       \/ \E w \in SolveWidths : \E g \in GridsOf(<<w, 1>>, SolveCells) :
              \E t \in TerminalSets(g, MaxTerminals) : \E gam \in SolveGammas :
                  GridMDPInit(g, t, <<0, 0>>, gam)

Run ==
    \/ /\ pc = "idle"
       /\ outcome = "ok"
       /\ \E ord \in Orders(states) : \E pol \in InitialPolicies : Start(ord, pol)
    \/ Evaluate
    \/ Improve

SolveNext == ConstructEnv \/ Run

SolveSpec == Init /\ [][SolveNext]_vars

----------------------------------------------------------------------------
(* Properties of the constructors *)

Built == outcome = "ok"
BuiltGrid == outcome = "ok" /\ call.class = "GridMDP"
BuiltMDP == outcome = "ok" /\ call.class = "MDP"

Headings == {EAST, NORTH, WEST, SOUTH}

\* no field of an object was assigned
NothingBuilt ==
    /\ states = {}
    /\ DOMAIN transitions = {}
    /\ DOMAIN reward = {}
    /\ actlist = <<>>
    /\ gamma = 0

\* C3: constructing an MDP or a GridMDP succeeds for every gamma with
\* 0 < gamma <= 1, and fails with the invalid-parameter error (ValueError),
\* leaving no object, for every gamma <= 0 and every gamma > 1.
GammaAloneDecides ==
    outcome # "none" =>
        /\ (0 < call.gamma /\ call.gamma <= GammaUnit) => outcome = "ok"
        /\ (call.gamma <= 0 \/ call.gamma > GammaUnit) =>
               (outcome = "ValueError" /\ NothingBuilt)

\* the MDP(...) calls of C7: transitions empty or omitted, states and reward omitted
TemplateCall ==
    /\ call.class = "MDP"
    /\ call.transitions \in {None, Some(<<>>)}
    /\ call.states = None
    /\ call.reward = None
    /\ 0 < call.gamma /\ call.gamma <= GammaUnit

\* C7: an MDP built with an empty or omitted transitions argument, states and
\* reward omitted, is constructed, and every call of T on it raises
\* "Transition model is missing".
TemplateIsBuilt ==
    (outcome # "none" /\ TemplateCall) =>
        /\ outcome = "ok"
        /\ \A s \in {StateA, StateB} : \A a \in Headings \cup {None} :
               MDP_T(s, a) = Raises("ValueError", "Transition model is missing")

\* |p - 1| < 0.001, for p counted in 1/ProbUnit
SumsToOne(p) == 1000 * Abs(p - ProbUnit) < ProbUnit

\* C4: for every state of a GridMDP and every action legal in it, as
\* actions(state) gives them, the probabilities of T(state, action) sum to
\* 1.0 within 0.001.
LegalOutcomesSumToOne ==
    BuiltGrid =>
        \A s \in states : \A a \in Range(actions(s)) : SumsToOne(SumProb(T(s, a)))

\* C4 as amended: for every state and every heading the probabilities of
\* T(state, heading) sum to 1.0 within 0.001; the one action legal in a
\* terminal state is noAction, and the probabilities of T(state, noAction)
\* sum to 0.
HeadingOutcomesSumToOne ==
    BuiltGrid =>
        \A s \in states :
            /\ \A a \in Headings : SumsToOne(SumProb(T(s, a)))
            /\ s \notin terminals => \A a \in Range(actions(s)) : SumsToOne(SumProb(T(s, a)))
            /\ s \in terminals => \A a \in Range(actions(s)) : SumProb(T(s, a)) = 0

\* a GridMDP with a terminal state and a state that is not terminal
GridWithBothKinds ==
    /\ BuiltGrid
    /\ states \cap terminals # {}
    /\ states \ terminals # {}

\* the cell of the caller's grid x columns from the left, y rows from the bottom
InputCell(x, y) == call.grid[Len(call.grid) - y][x + 1]

Passable == {s \in Coordinates(call.grid) : InputCell(s[1], s[2]) # None}

Destinations == {T(s, a)[i][2] : s \in states, a \in Headings, i \in 1..3}

\* C5: the states of a GridMDP are exactly the coordinates whose cell is not
\* the obstacle marker, y counted from the bottom row of the caller's grid;
\* the reward of each is the cell's number, 0 included; no obstacle is a
\* state, has a reward or is a destination.
StatesAreThePassableCells ==
    BuiltGrid =>
        /\ states = Passable
        /\ DOMAIN reward = Passable
        /\ \A s \in Passable : reward[s] = InputCell(s[1], s[2])[1]
        /\ Destinations \subseteq Passable

\* C6: in a GridMDP a terminal state has the one action noAction, and
\* T(state, noAction) is [(0.0, state)]; every other state has the list of
\* the four headings.
TerminalsHaveNoAction ==
    BuiltGrid =>
        \A s \in states \cup terminals :
            IF s \in terminals
            THEN actions(s) = <<None>> /\ T(s, None) = << <<0, s>> >>
            ELSE actions(s) = <<EAST, NORTH, WEST, SOUTH>>

\* a GridMDP with a terminal state, next to a state that is not terminal
GridWithTerminalNeighbour ==
    /\ BuiltGrid
    /\ \E s \in states \cap terminals : \E a \in Headings :
           vector_add(s, a) \in states \ terminals

Clockwise(a) ==
    CASE a = NORTH -> EAST
      [] a = EAST -> SOUTH
      [] a = SOUTH -> WEST
      [] a = WEST -> NORTH

CounterClockwise(a) ==
    CASE a = NORTH -> WEST
      [] a = WEST -> SOUTH
      [] a = SOUTH -> EAST
      [] a = EAST -> NORTH

InsideGrid(s) == 0 <= s[1] /\ s[1] < cols /\ 0 <= s[2] /\ s[2] < rows

Obstacle(s) == InsideGrid(s) /\ InputCell(s[1], s[2]) = None

\* where the claim of C9 sends an agent at s that heads in direction d
Moved(s, d) == IF vector_add(s, d) \in states THEN vector_add(s, d) ELSE s

\* C9: for every state s and heading a the outcomes of (s, a) are 0.8 to
\* go(s, a), 0.1 to go(s, clockwise a) and 0.1 to go(s, counter-clockwise a),
\* in this order; go(s, d) is s + d when s + d is a state and s when s + d is
\* an obstacle or outside the grid; every destination is a state.
OutcomesAreForwardAndSides ==
    BuiltGrid =>
        \A s \in states : \A a \in Headings :
            /\ Len(T(s, a)) = 3
            /\ T(s, a)[1][2] = Moved(s, a)
            /\ T(s, a)[2][2] = Moved(s, Clockwise(a))
            /\ T(s, a)[3][2] = Moved(s, CounterClockwise(a))
            /\ 10 * T(s, a)[1][1] = 8 * ProbUnit
            /\ 10 * T(s, a)[2][1] = 1 * ProbUnit
            /\ 10 * T(s, a)[3][1] = 1 * ProbUnit
            /\ (Obstacle(vector_add(s, a)) \/ ~ InsideGrid(vector_add(s, a)))
                   => T(s, a)[1][2] = s
            /\ \A i \in 1..3 : T(s, a)[i][2] \in states

\* a GridMDP where one state has a state to the east, an obstacle to the
\* north and the edge of the grid to the west
GridWithMoveObstacleAndEdge ==
    /\ BuiltGrid
    /\ \E s \in states :
           /\ vector_add(s, EAST) \in states
           /\ Obstacle(vector_add(s, NORTH))
           /\ ~ InsideGrid(vector_add(s, WEST))

----------------------------------------------------------------------------
(* Properties of policy_iteration *)

Returned == pc = "done"

\* u1 is u0 with one number added to every utility
Shifted(u0, u1) ==
    \E s0 \in DOMAIN u0 : \A s \in DOMAIN u0 : u1[s] - u0[s] = u1[s0] - u0[s0]

\* A pass starts from a policy and utilities that an earlier pass of the run
\* started from, up to one number added to every utility, with gamma = 1 and
\* no terminal state.  The probabilities of every T(s, a) then sum to 1, so
\* the added number passes unchanged through every update of
\* policy_evaluation and cancels in every comparison of the improvement
\* step: the passes between the two repeat forever and no pass returns.
CyclesBetweenPolicies ==
    /\ pc = "evaluate"
    /\ gamma = GammaUnit
    /\ states \cap terminals = {}
    /\ \E i \in 1..(Len(trail) - 1) :
           trail[i].pi = pi /\ Shifted(trail[i].U, U)

\* C1: policy_iteration terminates for every GridMDP with gamma in (0,1] and
\* every initial policy: the loop reaches a pass in which no action changes
\* and returns; it never cycles between policies forever.
NeverCyclesBetweenPolicies == ~ CyclesBetweenPolicies

\* C2: the policy returned does not depend on the initial policy: a run of
\* the same GridMDP from any other initial policy that returns, returns the
\* same policy.
FinalPolicyIgnoresInitialPolicy ==
    Returned =>
        \A pol0 \in InitialPolicies : policy_iteration(pol0) \in {None, Some(pi)}

IsEnv22 ==
    /\ BuiltGrid
    /\ call.grid = Env22.grid
    /\ call.terminals = Env22.terminals
    /\ call.gamma = Env22.gamma

\* C8: on the 2x2 grid [[-0.04, +1], [-0.04, -1]] with terminals (1,0) and
\* (1,1) and gamma 0.9, the policy returned, from every initial policy,
\* selects EAST at (0,1) and NORTH at (0,0), and so not EAST at (0,0).
Env22PolicyHeadsForPlusOne ==
    (Returned /\ IsEnv22) =>
        /\ pi[<<0, 1>>] = EAST
        /\ pi[<<0, 0>>] = NORTH
        /\ pi[<<0, 0>>] # EAST

\* the 2x2 grid solved from an initial policy that heads EAST at (0,0) and
\* WEST at (0,1)
Env22SolvedFromWorstPolicy ==
    /\ Returned
    /\ IsEnv22
    /\ trail[1].pi[<<0, 0>>] = EAST
    /\ trail[1].pi[<<0, 1>>] = WEST

\* a is the first action of actions(s) whose expected utility under U is the
\* largest
FirstBest(s, a) ==
    LET acts == actions(s)
    IN  \E i \in 1..Len(acts) :
            /\ acts[i] = a
            /\ \A j \in 1..Len(acts) :
                   expected_utility(acts[j], s, U) <= expected_utility(a, s, U)
            /\ \A j \in 1..(i - 1) :
                   expected_utility(acts[j], s, U) < expected_utility(a, s, U)

\* C10: policy_iteration returns only at a greedy fixed point: the policy
\* returned gives every state the first action, in the order of actions(s),
\* of the largest expected utility under the utilities of the last policy
\* evaluation, and the last improvement pass changed no action.
ReturnsAtGreedyFixedPoint ==
    Returned =>
        /\ unchanged
        /\ pi = trail[Len(trail)].pi
        /\ \A s \in states : FirstBest(s, pi[s])

\* a return after more than one pass where, in some state, a later action
\* ties with the action returned
ReturnedWithTie ==
    /\ Returned
    /\ passes > 1
    /\ \E s \in states \ terminals : \E a \in Range(actions(s)) :
           /\ a # pi[s]
           /\ expected_utility(a, s, U) = expected_utility(pi[s], s, U)

====
